---- MODULE Spec2Model ----
(***************************************************************************)
(* Balas' additive branch-and-bound solver for binary integer programs     *)
(* (src/src/lib.rs, src/src/recursive_solver.rs).                          *)
(*                                                                         *)
(* The model holds one Balas<T> object (best, solution, count, fixed), the *)
(* shared bound Arc<RwLock<T>> of the call in progress (its value and who  *)
(* holds the lock) and the locals of the solve_subtree workers.  Vectors   *)
(* are functions over 0..len-1, as the source indexes them; T is the       *)
(* integers and T::max_value() is Inf.                                     *)
(***************************************************************************)
EXTENDS Integers, FiniteSets, Sequences, TLC

\* ---------------------------------------------------------------- bounds
MaxVars == 3      \* 1 <= num_vars <= MaxVars
MaxCons == 1      \* 1 <= number of constraints <= MaxCons
MaxCoef == 2      \* objective coefficients are 0..MaxCoef
MaxAbs  == 1      \* constraint entries and rhs are -MaxAbs..MaxAbs

\* T::max_value(): above every objective value the bounded problems can reach
Inf == (MaxVars + 1) * (MaxCoef + 1)

VARIABLES
    fixed,        \* Balas.fixed: num_vars, coefficients, constraints, rhs, cumulative
    best,         \* Balas.best
    solution,     \* Balas.solution (<<>> is the empty Vec)
    count,        \* Balas.count
    call,         \* the method of the object that is executing: "none", "solve", "solve_mt"
    done,         \* the last method that returned ("new" after construction)
    global_best,  \* the value in the Arc<RwLock<T>> of the call in progress
    lock,         \* the RwLock: writer (0 = none) and the set of readers
    worker        \* the locals of each solve_subtree invocation

vars == <<fixed, best, solution, count, call, done, global_best, lock, worker>>

Workers == {1, 2}

\* ------------------------------------------------------------ problem data
Zeros(m) == [c \in 0..(m - 1) |-> 0]

RECURSIVE running_total_signed(_, _)
\* the running total without the test *val > T::zero()
running_total_signed(constraints, v) ==
    LET n == Cardinality(DOMAIN constraints)
        m == Cardinality(DOMAIN constraints[0])
    IN  IF v > n - 1
        THEN Zeros(m)
        ELSE LET prev == running_total_signed(constraints, v + 1)
             IN  [i \in 0..(m - 1) |-> prev[i] + constraints[v][i]]

RECURSIVE running_total(_, _)
\* make_cumulative's running_total after the rows num_vars-1 down to v were folded in
running_total(constraints, v) ==
    LET n == Cardinality(DOMAIN constraints)
        m == Cardinality(DOMAIN constraints[0])
    IN  IF v > n - 1
        THEN Zeros(m)
        ELSE LET prev == running_total(constraints, v + 1)
             IN  [i \in 0..(m - 1) |->
                     IF constraints[v][i] > 0 THEN prev[i] + constraints[v][i]
                                              ELSE prev[i]]

\* the fold without skip(1): row v itself is in the total of index v
make_cumulative_no_skip(constraints) ==
    LET n == Cardinality(DOMAIN constraints)
    IN  [v \in 0..(n - 2) |-> running_total(constraints, v)]

\* the rows 1..n-1 in reverse, each pushing the running total; then reversed
make_cumulative(constraints) ==
    LET n == Cardinality(DOMAIN constraints)
    IN  [v \in 0..(n - 2) |-> running_total(constraints, v + 1)]

\* Balas::new: the Fixed part
NewFixed(coeff, constraints, b) ==
    [num_vars     |-> Cardinality(DOMAIN coeff),
     coefficients |-> coeff,
     constraints  |-> constraints,
     rhs          |-> b,
     cumulative   |-> make_cumulative(constraints)]

NumCons == Cardinality(DOMAIN fixed.rhs)
Cons == 0..(NumCons - 1)

\* ------------------------------------------------------- solve_subtree
NoWorker ==
    [pc |-> "idle", start_var_index |-> 0, tree_index |-> 0, vars |-> <<>>,
     var_index |-> 0, state |-> "Normal", count |-> 0, best |-> Inf,
     solution |-> <<>>, accumulator |-> <<>>, objective |-> 0, branch |-> 0]

Spawned(start_var_index, tree_index) ==
    [NoWorker EXCEPT !.pc = "spawned", !.start_var_index = start_var_index,
                     !.tree_index = tree_index]

FreeLock == [writer |-> 0, readers |-> {}]

AddRow(a, row) == [c \in DOMAIN a |-> a[c] + row[c]]
SubRow(a, row) == [c \in DOMAIN a |-> a[c] - row[c]]
AllNonNeg(a) == \A c \in DOMAIN a : a[c] >= 0

RECURSIVE Pow2(_)
Pow2(e) == IF e = 0 THEN 1 ELSE 2 * Pow2(e - 1)

\* the shift taken from the other end: tree_index >> var_index & 1
PrefixBranch_lsb(start_var_index, tree_index, var_index) ==
    (tree_index \div Pow2(var_index)) % 2

\* the shift one too long: tree_index >> (start_var_index - var_index) & 1
PrefixBranch_long_shift(start_var_index, tree_index, var_index) ==
    (tree_index \div Pow2(start_var_index - var_index)) % 2

\* tree_index >> (start_var_index - var_index - 1) & 1
PrefixBranch(start_var_index, tree_index, var_index) ==
    (tree_index \div Pow2(start_var_index - var_index - 1)) % 2

RECURSIVE init_from(_, _, _, _)
\* the loop of init_subtree from var_index on, with the state acc so far
init_from(var_index, start_var_index, tree_index, acc) ==
    IF var_index >= start_var_index
    THEN acc
    ELSE init_from(var_index + 1, start_var_index, tree_index,
             IF PrefixBranch(start_var_index, tree_index, var_index) = 1
             THEN [accumulator |-> AddRow(acc.accumulator, fixed.constraints[var_index]),
                   objective   |-> acc.objective + fixed.coefficients[var_index]]
             ELSE acc)

init_subtree(start_var_index, tree_index) ==
    init_from(0, start_var_index, tree_index,
              [accumulator |-> [c \in Cons |-> -fixed.rhs[c]], objective |-> 0])

\* lines 138-148 once the read guard of line 142 has given the value g
InitLocals(w, g) ==
    LET i == init_subtree(w.start_var_index, w.tree_index)
    IN  [w EXCEPT !.pc = "loop",
                  !.vars = [v \in 0..(fixed.num_vars - 1) |-> 0],
                  !.var_index = w.start_var_index,
                  !.state = "Normal",
                  !.count = 0,
                  !.best = g,
                  !.solution = <<>>,
                  !.accumulator = i.accumulator,
                  !.objective = i.objective,
                  !.branch = 0]

\* the undo that leaves vars[var_index] at 1
Backtrack_keeps_var(w) ==
    IF w.vars[w.var_index] = 1
    THEN IF w.var_index = w.start_var_index
         THEN [w EXCEPT !.state = "Terminate"]
         ELSE [w EXCEPT
                 !.accumulator = SubRow(@, fixed.constraints[w.var_index]),
                 !.objective = @ - fixed.coefficients[w.var_index],
                 !.var_index = @ - 1]
    ELSE [w EXCEPT !.state = "Normal", !.branch = 1]

\* the undo that forgets objective -= coefficient
Backtrack_keeps_objective(w) ==
    IF w.vars[w.var_index] = 1
    THEN IF w.var_index = w.start_var_index
         THEN [w EXCEPT !.state = "Terminate"]
         ELSE [w EXCEPT
                 !.accumulator = SubRow(@, fixed.constraints[w.var_index]),
                 !.vars = [@ EXCEPT ![w.var_index] = 0],
                 !.var_index = @ - 1]
    ELSE [w EXCEPT !.state = "Normal", !.branch = 1]

\* Flow::Backtrack arm
Backtrack(w) ==
    IF w.vars[w.var_index] = 1
    THEN IF w.var_index = w.start_var_index
         THEN [w EXCEPT !.state = "Terminate"]
         ELSE [w EXCEPT
                 !.accumulator = SubRow(@, fixed.constraints[w.var_index]),
                 !.objective = @ - fixed.coefficients[w.var_index],
                 !.vars = [@ EXCEPT ![w.var_index] = 0],
                 !.var_index = @ - 1]
    ELSE [w EXCEPT !.state = "Normal", !.branch = 1]

\* the descent test shared by the 0 and the 1 branch
Descend(w) ==
    IF w.var_index \in DOMAIN fixed.cumulative
    THEN IF \A c \in Cons :
                w.accumulator[c] + fixed.cumulative[w.var_index][c] >= 0
         THEN [w EXCEPT !.var_index = @ + 1, !.branch = 0]
         ELSE [w EXCEPT !.state = "Backtrack"]
    ELSE [w EXCEPT !.state = "Backtrack"]

\* after the try_write of line 210, whether it stored or not
AfterWrite(w) == [w EXCEPT !.solution = w.vars, !.state = "Backtrack", !.pc = "loop"]

\* global_best.try_write() by worker id: Ok iff nobody holds the lock
try_write(w, lk, id) ==
    IF lk.writer = 0 /\ lk.readers = {}
    THEN [w |-> [w EXCEPT !.pc = "writing"], lock |-> [lk EXCEPT !.writer = id]]
    ELSE [w |-> AfterWrite(w), lock |-> lk]

\* the else branch of the bound test: fathom test, then the descent test
Fathom(w, lk, id) ==
    IF AllNonNeg(w.accumulator)
    THEN try_write([w EXCEPT !.best = w.objective], lk, id)
    ELSE [w |-> Descend(w), lock |-> lk]

\* Flow::Normal arm up to (and with) its first access to the lock
Normal(w, lk, id) ==
    LET w0 == [w EXCEPT !.count = @ + 1] IN
    IF w.branch = 1
    THEN LET w1 == [w0 EXCEPT
                      !.vars = [@ EXCEPT ![w.var_index] = 1],
                      !.accumulator = AddRow(@, fixed.constraints[w.var_index]),
                      !.objective = @ + fixed.coefficients[w.var_index]]
         IN  IF w1.objective >= w1.best
             THEN \* global_best.try_read(): Ok unless a writer holds the lock
                  IF lk.writer = 0
                  THEN [w |-> [w1 EXCEPT !.pc = "reading"],
                        lock |-> [lk EXCEPT !.readers = @ \cup {id}]]
                  ELSE [w |-> [w1 EXCEPT !.state = "Backtrack"], lock |-> lk]
             ELSE Fathom(w1, lk, id)
    ELSE [w |-> Descend(w0), lock |-> lk]

\* one iteration of the loop of solve_subtree
Iterate(w, lk, id) ==
    IF w.var_index >= fixed.num_vars
    THEN \* fixed.constraints[var_index] is out of bounds
         [w |-> [w EXCEPT !.pc = "panicked"], lock |-> lk]
    ELSE CASE w.state = "Terminate" -> [w |-> [w EXCEPT !.pc = "returned"], lock |-> lk]
           [] w.state = "Backtrack" -> [w |-> Backtrack(w), lock |-> lk]
           [] w.state = "Normal"    -> Normal(w, lk, id)

\* the Ok arm of the try_read: best = *gl, then the rest of the bound test
AfterRead(w, g) ==
    LET w1 == [w EXCEPT !.best = g] IN
    IF w1.objective >= w1.best
    THEN [w1 EXCEPT !.state = "Backtrack", !.pc = "loop"]
    ELSE IF AllNonNeg(w1.accumulator)
         THEN [w1 EXCEPT !.best = w1.objective, !.pc = "try_write"]
         ELSE [Descend(w1) EXCEPT !.pc = "loop"]

\* ------------------------------------------------------------------ Init
Problems ==
    UNION { UNION { { NewFixed(coeff, constraints, b) :
                        coeff \in [0..(n - 1) -> 0..MaxCoef],
                        constraints \in [0..(n - 1) -> [0..(m - 1) -> (-MaxAbs)..MaxAbs]],
                        b \in [0..(m - 1) -> (-MaxAbs)..MaxAbs] }
                    : m \in 1..MaxCons }
            : n \in 1..MaxVars }

Init ==
    /\ fixed \in Problems
    /\ best = Inf
    /\ solution = <<>>
    /\ count = 0
    /\ call = "none"
    /\ done = "new"
    /\ global_best = Inf
    /\ lock = FreeLock
    /\ worker = [id \in Workers |-> NoWorker]

\* --------------------------------------------------------- worker actions
\* line 142, global_best.read(): blocks while a writer holds the lock
ReadInit(id) ==
    /\ worker[id].pc = "spawned"
    /\ lock.writer = 0
    /\ lock' = [lock EXCEPT !.readers = @ \cup {id}]
    /\ worker' = [worker EXCEPT ![id].pc = "init_read"]
    /\ UNCHANGED <<fixed, best, solution, count, call, done, global_best>>

InitRelease(id) ==
    /\ worker[id].pc = "init_read"
    /\ lock' = [lock EXCEPT !.readers = @ \ {id}]
    /\ worker' = [worker EXCEPT ![id] = InitLocals(@, global_best)]
    /\ UNCHANGED <<fixed, best, solution, count, call, done, global_best>>

Step(id) ==
    /\ worker[id].pc = "loop"
    /\ LET r == Iterate(worker[id], lock, id)
       IN  /\ worker' = [worker EXCEPT ![id] = r.w]
           /\ lock' = r.lock
    /\ UNCHANGED <<fixed, best, solution, count, call, done, global_best>>

ReadRelease(id) ==
    /\ worker[id].pc = "reading"
    /\ lock' = [lock EXCEPT !.readers = @ \ {id}]
    /\ worker' = [worker EXCEPT ![id] = AfterRead(@, global_best)]
    /\ UNCHANGED <<fixed, best, solution, count, call, done, global_best>>

TryWrite(id) ==
    /\ worker[id].pc = "try_write"
    /\ LET r == try_write(worker[id], lock, id)
       IN  /\ worker' = [worker EXCEPT ![id] = r.w]
           /\ lock' = r.lock
    /\ UNCHANGED <<fixed, best, solution, count, call, done, global_best>>

\* *gl = best, and the guard dropped
WriteRelease(id) ==
    /\ worker[id].pc = "writing"
    /\ global_best' = worker[id].best
    /\ lock' = [lock EXCEPT !.writer = 0]
    /\ worker' = [worker EXCEPT ![id] = AfterWrite(@)]
    /\ UNCHANGED <<fixed, best, solution, count, call, done>>

\* ------------------------------------------------------------ Balas::solve
\* the object is called once after construction or after a reset
Callable == {"new", "reset"}

SolveStart ==
    /\ call = "none"
    /\ done \in Callable
    /\ call' = "solve"
    /\ global_best' = Inf
    /\ lock' = FreeLock
    /\ worker' = [worker EXCEPT ![1] = Spawned(0, 0)]
    /\ UNCHANGED <<fixed, best, solution, count, done>>

SolveReturn ==
    /\ call = "solve"
    /\ worker[1].pc = "returned"
    /\ best' = worker[1].best
    /\ count' = worker[1].count
    /\ solution' = worker[1].solution
    /\ call' = "none"
    /\ done' = "solve"
    /\ global_best' = Inf
    /\ lock' = FreeLock
    /\ worker' = [id \in Workers |-> NoWorker]
    /\ UNCHANGED fixed

\* --------------------------------------------------------- Balas::solve_mt
\* lines 84-91: the shared bound and the two threads, (1, 0) and (1, 1)
\* the parameter _num_threads is not used by the body
solve_mt_start(num_threads) ==
    /\ call = "none"
    /\ done \in Callable
    /\ call' = "solve_mt"
    /\ global_best' = Inf
    /\ lock' = FreeLock
    /\ worker' = [worker EXCEPT ![1] = Spawned(1, 0), ![2] = Spawned(1, 1)]
    /\ UNCHANGED <<fixed, best, solution, count, done>>

MaxThreads == 4   \* the thread counts asked for are 0..MaxThreads

RECURSIVE ilog2(_)
\* usize::ilog2 (of a value >= 1)
ilog2(x) == IF x <= 1 THEN 0 ELSE 1 + ilog2(x \div 2)

\* main.rs 46-54 for --threads n: 1usize << n.max(1).ilog2()
used_threads(n) == Pow2(ilog2(IF n >= 1 THEN n ELSE 1))

SolveMtStart ==
    \E n \in 0..MaxThreads : solve_mt_start(used_threads(n))

Finished(id) == worker[id].pc \in {"returned", "panicked"}

\* the reduction with b1 < b2 in place of b1 <= b2
SolveMtJoin_strict ==
    /\ call = "solve_mt"
    /\ Finished(1)
    /\ worker[1].pc = "panicked" \/ Finished(2)
    /\ IF worker[1].pc = "panicked" \/ worker[2].pc = "panicked"
       THEN /\ done' = "panicked"
            /\ UNCHANGED <<best, solution, count>>
       ELSE /\ done' = "solve_mt"
            /\ count' = worker[1].count + worker[2].count
            /\ IF worker[1].best < worker[2].best
               THEN /\ best' = worker[1].best
                    /\ solution' = worker[1].solution
               ELSE /\ best' = worker[2].best
                    /\ solution' = worker[2].solution
    /\ call' = "none"
    /\ global_best' = Inf
    /\ lock' = FreeLock
    /\ worker' = [id \in Workers |-> NoWorker]
    /\ UNCHANGED fixed

\* lines 92-104: h1.join().unwrap(), h2.join().unwrap() and the reduction
SolveMtJoin ==
    /\ call = "solve_mt"
    /\ Finished(1)
    /\ worker[1].pc = "panicked" \/ Finished(2)
    /\ IF worker[1].pc = "panicked" \/ worker[2].pc = "panicked"
       THEN /\ done' = "panicked"
            /\ UNCHANGED <<best, solution, count>>
       ELSE /\ done' = "solve_mt"
            /\ count' = worker[1].count + worker[2].count
            /\ IF worker[1].best <= worker[2].best
               THEN /\ best' = worker[1].best
                    /\ solution' = worker[1].solution
               ELSE /\ best' = worker[2].best
                    /\ solution' = worker[2].solution
    /\ call' = "none"
    /\ global_best' = Inf
    /\ lock' = FreeLock
    /\ worker' = [id \in Workers |-> NoWorker]
    /\ UNCHANGED fixed

\* ----------------------------------------------- Balas::solve_recursively
RECURSIVE node_reversed_bound(_, _, _, _, _, _)
\* Balas::node with the comparison of the bound test reversed
node_reversed_bound(s, branch, index, accumulator, objective, vars_in) ==
    LET s1 == [s EXCEPT !.count = @ + 1]
        vars1 == IF branch = 1 THEN [vars_in EXCEPT ![index] = 1] ELSE vars_in
        objective1 == IF branch = 1 THEN objective + fixed.coefficients[index]
                                    ELSE objective
        accumulator1 == IF branch = 1
                        THEN AddRow(accumulator, fixed.constraints[index])
                        ELSE accumulator
    IN  IF branch = 1 /\ objective1 <= s1.best
        THEN s1
        ELSE IF branch = 1 /\ AllNonNeg(accumulator1)
        THEN [s1 EXCEPT !.best = objective1, !.solution = vars1]
        ELSE IF index \notin DOMAIN fixed.cumulative
        THEN s1
        ELSE IF \A c \in Cons : accumulator1[c] + fixed.cumulative[index][c] >= 0
        THEN node_reversed_bound(
                  node_reversed_bound(s1, 0, index + 1, accumulator1, objective1, vars1),
                  1, index + 1, accumulator1, objective1, vars1)
        ELSE s1

RECURSIVE node(_, _, _, _, _, _)
\* Balas::node; s is the part of self it changes: best, solution, count
node(s, branch, index, accumulator, objective, vars_in) ==
    LET s1 == [s EXCEPT !.count = @ + 1]
        vars1 == IF branch = 1 THEN [vars_in EXCEPT ![index] = 1] ELSE vars_in
        objective1 == IF branch = 1 THEN objective + fixed.coefficients[index]
                                    ELSE objective
        accumulator1 == IF branch = 1
                        THEN AddRow(accumulator, fixed.constraints[index])
                        ELSE accumulator
    IN  IF branch = 1 /\ objective1 >= s1.best
        THEN s1
        ELSE IF branch = 1 /\ AllNonNeg(accumulator1)
        THEN [s1 EXCEPT !.best = objective1, !.solution = vars1]
        ELSE IF index \notin DOMAIN fixed.cumulative
        THEN s1
        ELSE IF \A c \in Cons : accumulator1[c] + fixed.cumulative[index][c] >= 0
        THEN node(node(s1, 0, index + 1, accumulator1, objective1, vars1),
                  1, index + 1, accumulator1, objective1, vars1)
        ELSE s1

\* the two root calls in the other order: the one-child first
solve_recursively_one_first(s) ==
    LET accumulator == [c \in Cons |-> -fixed.rhs[c]]
        vars0 == [v \in 0..(fixed.num_vars - 1) |-> 0]
    IN  node(node(s, 1, 0, accumulator, 0, vars0), 0, 0, accumulator, 0, vars0)

\* the two root calls, node(0, 0, ..) then node(1, 0, ..), from self as it is
solve_recursively(s) ==
    LET accumulator == [c \in Cons |-> -fixed.rhs[c]]
        vars0 == [v \in 0..(fixed.num_vars - 1) |-> 0]
    IN  node(node(s, 0, 0, accumulator, 0, vars0), 1, 0, accumulator, 0, vars0)

SolveRecursively ==
    /\ call = "none"
    /\ done \in Callable
    /\ LET s == solve_recursively([best |-> best, solution |-> solution, count |-> count])
       IN  /\ best' = s.best
           /\ solution' = s.solution
           /\ count' = s.count
    /\ done' = "solve_recursively"
    /\ UNCHANGED <<fixed, call, global_best, lock, worker>>

\* ------------------------------------------------------------ Balas::reset
\* reset that leaves the old solution in place
Reset_keeps_solution ==
    /\ call = "none"
    /\ done \in {"solve", "solve_mt", "solve_recursively"}
    /\ count' = 0
    /\ best' = Inf
    /\ done' = "reset"
    /\ UNCHANGED <<fixed, solution, call, global_best, lock, worker>>

Reset ==
    /\ call = "none"
    /\ done \in {"solve", "solve_mt", "solve_recursively"}
    /\ count' = 0
    /\ best' = Inf
    /\ solution' = <<>>
    /\ done' = "reset"
    /\ UNCHANGED <<fixed, call, global_best, lock, worker>>

Next ==
    \/ SolveStart
    \/ SolveReturn
    \/ SolveMtStart
    \/ SolveMtJoin
    \/ SolveRecursively
    \/ Reset
    \/ \E id \in Workers : ReadInit(id)
    \/ \E id \in Workers : InitRelease(id)
    \/ \E id \in Workers : Step(id)
    \/ \E id \in Workers : ReadRelease(id)
    \/ \E id \in Workers : TryWrite(id)
    \/ \E id \in Workers : WriteRelease(id)

Spec == Init /\ [][Next]_vars

\* ------------------------------------------- solve_subtree run on its own
\* one step of a worker that shares the bound with nobody: st = [w, lock, g]
Advance(st, id) ==
    CASE st.w.pc = "spawned" ->
             [st EXCEPT !.w = InitLocals(@, st.g)]
      [] st.w.pc = "loop" ->
             LET r == Iterate(st.w, st.lock, id)
             IN  [st EXCEPT !.w = r.w, !.lock = r.lock]
      [] st.w.pc = "reading" ->
             [st EXCEPT !.w = AfterRead(@, st.g), !.lock = FreeLock]
      [] st.w.pc = "try_write" ->
             LET r == try_write(st.w, st.lock, id)
             IN  [st EXCEPT !.w = r.w, !.lock = r.lock]
      [] st.w.pc = "writing" ->
             [w |-> AfterWrite(st.w), lock |-> FreeLock, g |-> st.w.best]

RECURSIVE run_subtree(_, _)
run_subtree(st, id) ==
    IF st.w.pc \in {"returned", "panicked"} THEN st
    ELSE run_subtree(Advance(st, id), id)

\* what Balas::solve leaves in (best, count, solution)
solve_result ==
    run_subtree([w |-> Spawned(0, 0), lock |-> FreeLock, g |-> Inf], 1).w

\* what Balas::solve_recursively leaves in self when called on a new object
recursive_result ==
    solve_recursively([best |-> Inf, solution |-> <<>>, count |-> 0])

\* ----------------------------------------------------- the problem's meaning
VarIndices == 0..(fixed.num_vars - 1)
Assignments == [VarIndices -> {0, 1}]

RECURSIVE SumUpTo(_, _)
SumUpTo(f, v) == IF v < 0 THEN 0 ELSE f[v] + SumUpTo(f, v - 1)

ObjectiveOf(x) ==
    SumUpTo([v \in VarIndices |-> fixed.coefficients[v] * x[v]], fixed.num_vars - 1)

LhsOf(x, c) ==
    SumUpTo([v \in VarIndices |-> fixed.constraints[v][c] * x[v]], fixed.num_vars - 1)

Feasible(x) == \A c \in Cons : LhsOf(x, c) >= fixed.rhs[c]

FeasibleSet == {x \in Assignments : Feasible(x)}

AllZeros == [v \in VarIndices |-> 0]

\* ------------------------------------------------------------------ claims

\* C1: after solve() on a new solver, best <= the objective of every feasible
\* 0/1 assignment, the all-zeros assignment included.
C1_SolveOptimal ==
    done = "solve" => \A x \in FeasibleSet : best <= ObjectiveOf(x)

\* C2: under every interleaving of its workers, the best that solve_mt returns
\* is <= the objective of every feasible 0/1 assignment.
C2_SolveMtOptimal ==
    done = "solve_mt" => \A x \in FeasibleSet : best <= ObjectiveOf(x)

\* C3: after solve() or solve_mt() returns, a non-empty solution is a 0/1
\* vector of length n that satisfies every constraint.
C3_SolutionFeasible ==
    (done \in {"solve", "solve_mt"} /\ solution # <<>>)
        => (solution \in Assignments /\ Feasible(solution))

\* C4: whenever a worker, solve() or solve_mt() returns a best other than
\* T::max_value, the solution returned with it is a full 0/1 vector whose
\* objective equals that best.
C4_SolutionAchievesBest ==
    /\ \A id \in Workers :
          (worker[id].pc = "returned" /\ worker[id].best # Inf)
              => (/\ worker[id].solution \in Assignments
                  /\ ObjectiveOf(worker[id].solution) = worker[id].best)
    /\ (done \in {"solve", "solve_mt"} /\ best # Inf)
          => (solution \in Assignments /\ ObjectiveOf(solution) = best)

\* C5: solve() (one worker, prefix depth 0) and solve_mt (two workers, prefix
\* depth 1) return the same best for the same problem, under every
\* interleaving of the two workers.
C5_SameBestOneOrTwoWorkers ==
    done = "solve_mt" => best = solve_result.best

\* C6: every successful write to the shared bound stores a value strictly
\* smaller than the value the cell held just before the write.
C6_SharedBoundDecreases ==
    [][\A id \in Workers :
          (worker[id].pc = "writing" /\ worker'[id].pc # "writing")
              => global_best' < global_best]_vars

\* C7: the recursive reference and solve_mt, each on a new solver for the same
\* input, finish with the same best, and solve_mt's solution is a feasible
\* assignment.
C7_RecursiveAgreesWithMt ==
    done = "solve_mt"
        => (/\ best = recursive_result.best
            /\ solution # <<>> => (solution \in Assignments /\ Feasible(solution)))

\* the complete assignments of the subtree of the worker: the prefix that
\* init_subtree replays, then any values
Subtree(id) ==
    {x \in Assignments :
        \A v \in VarIndices :
            v < worker[id].start_var_index
                => x[v] = PrefixBranch(worker[id].start_var_index,
                                       worker[id].tree_index, v)}

\* C8: a worker that finds no feasible assignment in its own subtree returns
\* best_local = T::max_value and an empty best_solution, whatever the other
\* workers wrote to the shared bound.
C8_NothingFoundIsInfinity ==
    \A id \in Workers :
        (/\ worker[id].pc = "returned"
         /\ \/ worker[id].solution = <<>>
            \/ Subtree(id) \cap FeasibleSet = {})
            => (worker[id].best = Inf /\ worker[id].solution = <<>>)

\* C9: on a problem with no feasible assignment, solve(), solve_mt() and
\* solve_recursively() each return normally, with best = T::max_value and an
\* empty solution.
C9_InfeasibleGivesInfinity ==
    FeasibleSet = {}
        => (/\ done # "panicked"
            /\ done \in {"solve", "solve_mt", "solve_recursively"}
                  => (best = Inf /\ solution = <<>>))

\* C10: when every rhs entry is <= 0 and every constraint entry is >= 0, solve
\* returns best = 0 and solution = the all-zeros vector.
C10_AllZerosOptimal ==
    (/\ done = "solve"
     /\ \A c \in Cons : fixed.rhs[c] <= 0
     /\ \A v \in VarIndices : \A c \in Cons : fixed.constraints[v][c] >= 0)
        => (best = 0 /\ solution = AllZeros)

\* ------------------------------------------------- a seed written to best
MaxSeed == 4      \* the caller's heuristic values are 0..MaxSeed

\* main.rs 40-42: balas.best = heuristic, before the solver is called
SetBest(heuristic) ==
    /\ call = "none"
    /\ done \in Callable
    /\ best # heuristic
    /\ best' = heuristic
    /\ UNCHANGED <<fixed, solution, count, call, done, global_best, lock, worker>>

\* main: an optional seed, then one single-threaded solver
NextSeed ==
    \/ \E heuristic \in 0..MaxSeed : SetBest(heuristic)
    \/ SolveStart
    \/ SolveReturn
    \/ SolveRecursively
    \/ \E id \in Workers : ReadInit(id)
    \/ \E id \in Workers : InitRelease(id)
    \/ \E id \in Workers : Step(id)
    \/ \E id \in Workers : ReadRelease(id)
    \/ \E id \in Workers : WriteRelease(id)

SpecSeed == Init /\ [][NextSeed]_vars

\* what solve_recursively leaves in a new object whose best was set to h
recursive_seeded(h) ==
    solve_recursively([best |-> h, solution |-> <<>>, count |-> 0])

\* the smallest objective of a feasible assignment (Inf if there is none)
TrueOptimum ==
    IF FeasibleSet = {} THEN Inf
    ELSE CHOOSE o \in {ObjectiveOf(x) : x \in FeasibleSet} :
             \A x \in FeasibleSet : o <= ObjectiveOf(x)

\* C11: a value h written into best before solve is the start value of the
\* shared bound and of each worker's best_local (so that every one-branch node
\* with objective >= h is pruned); without a seed the bound starts at
\* T::max_value.
C11_SeedStartsSharedBound ==
    call \in {"solve", "solve_mt"}
        => \A id \in Workers :
              /\ worker[id].pc \in {"spawned", "init_read"} => global_best = best
              /\ (worker[id].pc = "loop" /\ worker[id].count = 0)
                    => worker[id].best = best

\* C12: if best is preseeded with the true optimum of a feasible problem, then
\* on return from solve, and from solve_recursively, best is unchanged and
\* solution is a feasible 0/1 assignment whose objective equals best.
C12_SeededWithOptimum ==
    [][(/\ best = TrueOptimum
        /\ best # Inf
        /\ \/ call = "solve" /\ call' = "none"
           \/ done \in Callable /\ done' = "solve_recursively")
          => (/\ best' = best
              /\ solution' \in Assignments
              /\ Feasible(solution')
              /\ ObjectiveOf(solution') = best')]_vars

\* C13: of two single-threaded runs on the same problem that differ only in
\* the seed, the run with the smaller seed visits at most as many nodes: the
\* run that returns here, seeded with best, against the run from each other
\* seed h.
C13_CountMonotoneInSeed ==
    [][/\ (done \in Callable /\ done' = "solve_recursively")
            => \A h \in (0..MaxSeed) \cup {Inf} :
                  /\ h <= best => recursive_seeded(h).count <= count'
                  /\ best <= h => count' <= recursive_seeded(h).count
       /\ (call = "solve" /\ call' = "none")
            => count' = solve_result.count]_vars

\* a seeded recursive run that visited fewer nodes than the unseeded run
C13_Witness ==
    /\ done = "solve_recursively"
    /\ count < recursive_result.count

\* --------------------------------------------------------- the dispatcher
\* the largest power of two <= W (W >= 1)
LargestPow2(W) ==
    CHOOSE q \in {Pow2(k) : k \in 0..W} : q <= W /\ W < 2 * q

\* the k with 2^k = q
Log2(q) == CHOOSE k \in 0..q : Pow2(k) = q

\* C14: for a requested worker count W the dispatcher runs exactly W' = 2^k
\* workers, 2^k the largest power of two <= W, one for each prefix index
\* 0..W'-1 at prefix depth k (a request of 0 is treated as 1).
C14_PowerOfTwoWorkers ==
    [][\A W \in 0..MaxThreads :
          solve_mt_start(used_threads(W))
              => LET Wp == LargestPow2(IF W = 0 THEN 1 ELSE W)
                     started == {id \in Workers : worker'[id].pc = "spawned"}
                 IN  /\ Cardinality(started) = Wp
                     /\ {<<worker'[id].start_var_index, worker'[id].tree_index>> :
                            id \in started}
                          = {<<Log2(Wp), i>> : i \in 0..(Wp - 1)}]_vars

\* C15: after the join, count is the sum of the workers' counts and (best,
\* solution) is the pair of the worker with the smallest best_local, the
\* smallest worker index winning on equal best_local.
C15_JoinReduction ==
    [][(call = "solve_mt" /\ done' = "solve_mt")
          => LET least == CHOOSE b \in {worker[id].best : id \in Workers} :
                              \A id \in Workers : b <= worker[id].best
                 winner == CHOOSE id \in Workers :
                              /\ worker[id].best = least
                              /\ \A j \in Workers : worker[j].best = least => id <= j
             IN  /\ count' = worker[1].count + worker[2].count
                 /\ best' = worker[winner].best
                 /\ solution' = worker[winner].solution]_vars

\* solve_mt has returned a result that a worker found
C15_Witness ==
    /\ done = "solve_mt"
    /\ solution # <<>>
    /\ count >= 4

\* ------------------------------------------------------------- scheduling
\* every step of the thread that runs solve_subtree for worker id
WorkerRuns(id) ==
    \/ ReadInit(id)
    \/ InitRelease(id)
    \/ Step(id)
    \/ ReadRelease(id)
    \/ TryWrite(id)
    \/ WriteRelease(id)

\* a thread that can run does run, and so does the caller once it can join
FairSpec ==
    /\ Spec
    /\ \A id \in Workers : WF_vars(WorkerRuns(id))
    /\ WF_vars(SolveReturn)
    /\ WF_vars(SolveMtJoin)

\* C16: each worker eventually reaches the Terminate state, under every
\* interleaving and every outcome of try-read/try-write; hence the join of the
\* dispatcher eventually returns.
C16_WorkersTerminate ==
    /\ \A id \in Workers :
          (worker[id].pc = "spawned")
              ~> (worker[id].pc = "returned" /\ worker[id].state = "Terminate")
    /\ (call = "solve_mt") ~> (call = "none" /\ done = "solve_mt")

\* C17: at every step of every worker started by solve() or solve_mt(),
\* start_depth <= depth < n, and no index is out of range.
C17_DepthInRange ==
    \A id \in Workers :
        worker[id].pc \notin {"idle", "spawned", "init_read"}
            => (/\ worker[id].start_var_index <= worker[id].var_index
                /\ worker[id].var_index < fixed.num_vars
                /\ worker[id].pc # "panicked")

\* C18: reset() sets best to T::max_value, solution to empty and count to 0,
\* the values of a new solver, and leaves the problem data unchanged, after
\* solve, solve_mt and solve_recursively.
C18_ResetRestoresNew ==
    [][(done' = "reset" /\ done # "reset")
          => (/\ best' = Inf
              /\ solution' = <<>>
              /\ count' = 0
              /\ fixed' = fixed)]_vars

\* reset has cleared a result: the object is as new again
C18_Witness ==
    /\ done = "reset"
    /\ best = Inf /\ solution = <<>> /\ count = 0

\* --------------------------------------- solve_subtree at any subtree root
\* solve_subtree(start_var_index, tree_index, global_best, &fixed) called with
\* a new shared bound, as solve and solve_mt call it
solve_subtree_start(start_var_index, tree_index) ==
    /\ call = "none"
    /\ done \in Callable
    /\ call' = "solve_subtree"
    /\ global_best' = Inf
    /\ lock' = FreeLock
    /\ worker' = [worker EXCEPT ![1] = Spawned(start_var_index, tree_index)]
    /\ UNCHANGED <<fixed, best, solution, count, done>>

\* every start depth k and every prefix index p in [0, 2^k)
SubtreeStart ==
    \E k \in 0..fixed.num_vars :
        \E p \in 0..(Pow2(k) - 1) : solve_subtree_start(k, p)

\* line 241: the tuple (best, count, solution) handed to the caller
SubtreeReturn ==
    /\ call = "solve_subtree"
    /\ Finished(1)
    /\ IF worker[1].pc = "panicked"
       THEN /\ done' = "panicked"
            /\ UNCHANGED <<best, solution, count>>
       ELSE /\ done' = "solve_subtree"
            /\ best' = worker[1].best
            /\ count' = worker[1].count
            /\ solution' = worker[1].solution
    /\ call' = "none"
    /\ global_best' = Inf
    /\ lock' = FreeLock
    /\ worker' = [id \in Workers |-> NoWorker]
    /\ UNCHANGED fixed

NextSubtree ==
    \/ SubtreeStart
    \/ SubtreeReturn
    \/ \E id \in Workers : ReadInit(id)
    \/ \E id \in Workers : InitRelease(id)
    \/ \E id \in Workers : Step(id)
    \/ \E id \in Workers : ReadRelease(id)
    \/ \E id \in Workers : WriteRelease(id)

SpecSubtree == Init /\ [][NextSubtree]_vars

RECURSIVE Bit(_, _)
\* bit j of p, bit 0 the least significant one
Bit(p, j) == IF j = 0 THEN p % 2 ELSE Bit(p \div 2, j - 1)

\* a worker that has replayed its prefix and not yet run an iteration
Replayed(w) == w.pc = "loop" /\ w.count = 0 /\ w.state = "Normal"

\* the branches b of depths 0..k-1, with 0 at every depth from k on
Extended(b, k) == [i \in VarIndices |-> IF i < k THEN b[i] ELSE 0]

\* w has replayed its prefix, and what it holds is the replay of branches b
ReplayOf(w, b) ==
    LET x == Extended(b, w.start_var_index)
    IN  /\ Replayed(w)
        /\ w.objective = ObjectiveOf(x)
        /\ \A c \in Cons : w.accumulator[c] = LhsOf(x, c) - fixed.rhs[c]

\* the branches the code gives the depths 0..k-1 for prefix index q
Decode(k, q) == [i \in 0..(k - 1) |-> PrefixBranch(k, q, i)]

C20_PrefixesPartition ==
    \A id \in Workers :
        worker[id].pc # "idle"
            => LET k == worker[id].start_var_index
                   P == 0..(Pow2(k) - 1)
               IN  /\ \A q1, q2 \in P : q1 # q2 => Decode(k, q1) # Decode(k, q2)
                   /\ {Decode(k, q) : q \in P} = [0..(k - 1) -> {0, 1}]
                   /\ \A x \in Assignments :
                         Cardinality({q \in P :
                             \A i \in 0..(k - 1) :
                                 i \in VarIndices => x[i] = Decode(k, q)[i]}) = 1

\* a worker of prefix depth 2 has searched its subtree and found a solution
C20_Witness ==
    /\ worker[1].pc = "returned"
    /\ worker[1].start_var_index = 2
    /\ worker[1].tree_index = 2
    /\ worker[1].solution # <<>>

\* ------------------------------------------------- the worker's invariants
\* the assignment on the path of w: vars up to the current depth, 0 beyond
OnPath(w) == [v \in VarIndices |-> IF v <= w.var_index THEN w.vars[v] ELSE 0]

\* C21: at the top of every loop iteration of a worker, objective is the sum
\* of coefficients[v]*vars[v] and accumulator[c] + rhs[c] the sum of
\* constraints[v][c]*vars[v], over the variables on the current path (prefix
\* depths included).
C21_PathSums ==
    \A id \in Workers :
        worker[id].pc = "loop"
            => /\ worker[id].objective = ObjectiveOf(OnPath(worker[id]))
               /\ \A c \in Cons :
                     worker[id].accumulator[c] + fixed.rhs[c]
                         = LhsOf(OnPath(worker[id]), c)

\* a worker that has run line 138 (vars exists)
Started(w) == w.pc \notin {"idle", "spawned", "init_read"}

\* C22: at every step of a worker vars[v] = 0 for every v greater than the
\* current depth; a worker that has just descended to depth d with branch 0
\* finds vars[d] = 0.
C22_ZeroBeyondDepth ==
    \A id \in Workers :
        Started(worker[id])
            => /\ \A v \in VarIndices :
                     v > worker[id].var_index => worker[id].vars[v] = 0
               /\ (/\ worker[id].pc = "loop"
                   /\ worker[id].state = "Normal"
                   /\ worker[id].branch = 0
                   /\ worker[id].var_index \in VarIndices)
                     => worker[id].vars[worker[id].var_index] = 0

\* the solve worker is back at depth 0 after one-branches deeper in the tree
C22_Witness ==
    /\ call = "solve"
    /\ fixed.num_vars = 3
    /\ worker[1].pc = "loop"
    /\ worker[1].state = "Backtrack"
    /\ worker[1].var_index = 0
    /\ worker[1].count >= 5
    /\ \A v \in VarIndices : v > 0 => worker[1].vars[v] = 0

\* the worker's own branches at the depths below d, 0 elsewhere
OwnBelow(w, d) ==
    [v \in VarIndices |-> IF w.start_var_index <= v /\ v < d THEN w.vars[v] ELSE 0]

\* objective and accumulator of w are those of its replayed prefix plus its
\* own branches at the depths below d
HoldsBelow(w, d) ==
    LET i == init_subtree(w.start_var_index, w.tree_index)
    IN  /\ w.objective = i.objective + ObjectiveOf(OwnBelow(w, d))
        /\ \A c \in Cons :
              w.accumulator[c] = i.accumulator[c] + LhsOf(OwnBelow(w, d), c)

\* C23: a Backtrack step from depth d (> start depth) to depth d-1 leaves
\* objective and accumulator at the values they had right before the Normal
\* step that applied branch 1 at depth d: before that step, and after the
\* undo, they are the values of the branches below d, and no step changes a
\* branch below the current depth.
C23_ExactUndo ==
    [][\A id \in Workers :
          (Started(worker[id]) /\ Started(worker'[id]))
              => /\ (/\ worker[id].pc = "loop"
                     /\ worker[id].state = "Normal"
                     /\ worker[id].branch = 1
                     /\ worker[id].var_index \in VarIndices)
                       => HoldsBelow(worker[id], worker[id].var_index)
                 /\ worker'[id].var_index = worker[id].var_index - 1
                       => HoldsBelow(worker'[id], worker[id].var_index)
                 /\ \A v \in VarIndices :
                       v < worker[id].var_index
                           => worker'[id].vars[v] = worker[id].vars[v]]_vars

\* the second solve_mt worker is back at its start depth, its prefix value
\* restored, after a one-branch of positive cost one level down
C23_Witness ==
    /\ call = "solve_mt"
    /\ fixed.num_vars = 3
    /\ fixed.coefficients[0] > 0
    /\ fixed.coefficients[2] > 0
    /\ worker[2].pc = "loop"
    /\ worker[2].state = "Backtrack"
    /\ worker[2].var_index = 1
    /\ worker[2].vars[1] = 0
    /\ worker[2].count >= 3
    /\ worker[2].objective = fixed.coefficients[0]

\* ------------------------------------------------------- the bound test
\* w is at a loop top about to apply branch 1 with an objective >= best
EntersAtBound(w) ==
    /\ w.pc = "loop"
    /\ w.state = "Normal"
    /\ w.branch = 1
    /\ w.var_index \in VarIndices
    /\ w.objective + fixed.coefficients[w.var_index] >= w.best

\* w2 is w1 pruned, or still inside the bound test: no fathom, no solution
\* recorded, no descent
PrunedOrTesting(w1, w2) ==
    /\ \/ w2.pc = "reading"
       \/ w2.pc = "loop" /\ w2.state = "Backtrack"
    /\ w2.solution = w1.solution
    /\ w2.var_index = w1.var_index

\* C24: on a one-branch entry whose updated objective is >= best_local at
\* that moment the worker switches to Backtrack without the fathom test,
\* without recording a solution and without descending: the entry step
\* prunes or goes to read the shared bound, and the step after the read prunes.
C24_PrunedAtLocalBound ==
    [][\A id \in Workers :
          /\ (EntersAtBound(worker[id]) /\ worker'[id] # worker[id])
                => PrunedOrTesting(worker[id], worker'[id])
          /\ (worker[id].pc = "reading" /\ worker'[id] # worker[id])
                => (/\ PrunedOrTesting(worker[id], worker'[id])
                    /\ worker'[id].pc = "loop")]_vars

\* C25: a worker's best_local never increases during its run, neither by a
\* refresh from the shared bound nor by a fathom, so that a recorded solution
\* is never replaced by one recorded at a larger best_local.
C25_LocalBestNeverIncreases ==
    [][\A id \in Workers :
          (Started(worker[id]) /\ Started(worker'[id]))
              => worker'[id].best <= worker[id].best]_vars

\* ------------------------------------------------ the cumulative prune
\* x agrees with the node of worker w: the prefix branches of w at the
\* depths below its start depth, vars from there to the current depth
ExtendsNodeOf(x, w) ==
    \A v \in VarIndices :
        /\ v < w.start_var_index
              => x[v] = PrefixBranch(w.start_var_index, w.tree_index, v)
        /\ (w.start_var_index <= v /\ v <= w.var_index) => x[v] = w.vars[v]

\* x agrees with y at the depths 0..d
ExtendsPath(x, y, d) == \A v \in 0..d : x[v] = y[v]

\* the accumulator Balas::node holds at depth d on the path y
AccumulatorOn(y, d) ==
    [c \in Cons |->
        LhsOf([v \in VarIndices |-> IF v <= d THEN y[v] ELSE 0], c) - fixed.rhs[c]]

\* C26: where the descent test fails for constraint c (accumulator[c] +
\* cumulative[depth][c] < 0) no assignment that extends the node's partial
\* assignment satisfies c: for every node a worker is at, and for every node
\* the recursive reference can be called on.
C26_CumulativePruneSound ==
    /\ \A id \in Workers :
          (Started(worker[id]) /\ worker[id].var_index \in DOMAIN fixed.cumulative)
              => \A c \in Cons :
                    worker[id].accumulator[c]
                        + fixed.cumulative[worker[id].var_index][c] < 0
                       => \A x \in Assignments :
                             ExtendsNodeOf(x, worker[id]) => LhsOf(x, c) < fixed.rhs[c]
    /\ done = "solve_recursively"
          => \A d \in DOMAIN fixed.cumulative : \A y \in Assignments : \A c \in Cons :
                AccumulatorOn(y, d)[c] + fixed.cumulative[d][c] < 0
                   => \A x \in Assignments :
                         ExtendsPath(x, y, d) => LhsOf(x, c) < fixed.rhs[c]

\* the second solve_mt worker was refused the descent from a one-branch at
\* depth 1 of a problem that has feasible assignments
C26_Witness ==
    /\ call = "solve_mt"
    /\ fixed.num_vars = 3
    /\ FeasibleSet # {}
    /\ worker[2].pc = "loop"
    /\ worker[2].state = "Backtrack"
    /\ worker[2].var_index = 1
    /\ worker[2].vars[1] = 1
    /\ worker[2].solution = <<>>
    /\ worker[2].objective < worker[2].best
    /\ \E c \in Cons : worker[2].accumulator[c] + fixed.cumulative[1][c] < 0

\* C27: make_cumulative returns n-1 rows, cumulative[v][c] the sum over the
\* rows u > v of max(0, constraints[u][c]), for 0 <= v <= n-2; there is no
\* row n-1.
C27_CumulativeRows ==
    /\ DOMAIN fixed.cumulative = 0..(fixed.num_vars - 2)
    /\ \A v \in 0..(fixed.num_vars - 2) : \A c \in Cons :
          fixed.cumulative[v][c] =
              SumUpTo([u \in VarIndices |->
                          IF u > v /\ fixed.constraints[u][c] > 0
                          THEN fixed.constraints[u][c] ELSE 0],
                      fixed.num_vars - 1)

\* a new solver of three variables whose rows 1 and 2 differ in sign
C27_Witness ==
    /\ done = "new"
    /\ fixed.num_vars = 3
    /\ fixed.constraints[0][0] > 0
    /\ fixed.constraints[1][0] < 0
    /\ fixed.constraints[2][0] > 0
    /\ fixed.cumulative[0][0] = fixed.constraints[2][0]

\* ------------------------------------------- iterative against recursive
\* C28: on a new solver solve() and solve_recursively() visit the same nodes
\* in the same order: each finishes with the count, the best and the solution
\* that the other one gives on the same problem.
C28_IterativeEqualsRecursive ==
    /\ done = "solve"
          => /\ count = recursive_result.count
             /\ best = recursive_result.best
             /\ solution = recursive_result.solution
    /\ done = "solve_recursively"
          => /\ count = solve_result.count
             /\ best = solve_result.best
             /\ solution = solve_result.solution

\* solve has returned a solution of a three-variable problem after a search
\* that pruned part of the tree
C28_Witness ==
    /\ done = "solve"
    /\ fixed.num_vars = 3
    /\ solution # <<>>
    /\ count >= 5
    /\ count < 14
====
